---- MODULE Spec2Model ----
(***************************************************************************)
(* Weekly training-status derivation of the fitness-coaching app:          *)
(*   - the calendar screen   (src/app/training-calendar.tsx)               *)
(*   - the coaching dashboard (src/unnamed/part_000)                       *)
(*                                                                         *)
(* A JavaScript Date is an instant.  The model counts instants in whole    *)
(* hours since 1970-01-01T00:00Z.  The device's local time is the instant  *)
(* plus a fixed offset tz (hours).  getDay/getDate/setDate work on local   *)
(* time, toISOString works on UTC, as ECMAScript defines them.             *)
(* An optional value (undefined / null in the code) is a sequence of       *)
(* length 0 (absent) or 1 (present).                                       *)
(***************************************************************************)
EXTENDS Integers, Sequences, FiniteSets, TLC

VARIABLES
    tz,                \* local-time offset from UTC of the device, hours
    clock,             \* the wall clock: what `new Date()` returns
    currentWeekStart,  \* calendar screen state (training-calendar.tsx:75)
    weekDates,         \* calendar: result of getWeekDates(currentWeekStart)
    dashWeekDates,     \* dashboard: weekDates local of loadWeeklyWorkouts
    trainingSessions,  \* the list getClientTrainingSessions returned
    workoutTemplates,  \* dashboard state (part_000:59)
    weeklyWorkouts,    \* calendar screen state (training-calendar.tsx:63)
    weeklyStats,       \* calendar screen state (training-calendar.tsx:64)
    nowRead,           \* calendar: the `now` read for each day of the loop
    dashWeekly,        \* dashboard state weeklyWorkouts (part_000:60)
    dashNowRead,       \* dashboard: the `now` read for each day of the map
    loading,           \* calendar screen state (training-calendar.tsx:70)
    loadingWeekly,     \* dashboard state (part_000:61)
    screen,            \* the screen this run exercises
    userProfile,       \* calendar screen state (training-calendar.tsx:76)
    initPending,       \* calendar: initializeData has not settled yet
    pendingEffects,    \* calendar: scheduled runs of the effect at lines 82-86
    inflight,          \* calendar: loadWeeklySchedule calls awaiting the fetch
    refreshing,        \* screen state (training-calendar.tsx:71, part_000:58)
    loadOutcome,       \* how the load that settled last ended
    failures,          \* number of fetches that were rejected
    isRearrangeMode,   \* calendar screen state (training-calendar.tsx:73)
    selectedItem,      \* calendar screen state (training-calendar.tsx:72),
                       \* as a position 1..7 of weeklyWorkouts
    pressed,           \* the day the last step pressed, if it pressed one
    route,             \* the route the last step pushed, if it pushed one
    refreshStep,       \* dashboard: the await handleRefresh is suspended at
    plans,             \* the rows of the workout_plans table, oldest first
    planResult         \* the last accessor call and what it returned

\* the calendar screen's asynchronous machinery, untouched by the
\* derivation steps
uiVars == <<userProfile, initPending, pendingEffects, inflight, refreshing,
            failures>>

\* the calendar screen's rearrange mode, selection and navigation
pressVars == <<isRearrangeMode, selectedItem, pressed, route>>

\* the workout_plans table and its accessors
planVars == <<plans, planResult>>

vars == <<tz, clock, currentWeekStart, weekDates, dashWeekDates,
          trainingSessions, workoutTemplates, weeklyWorkouts, weeklyStats,
          nowRead, dashWeekly, dashNowRead, loading, loadingWeekly, screen,
          uiVars, loadOutcome, pressVars, refreshStep, planVars>>

----------------------------------------------------------------------------
(* Optional values *)

None == <<>>

Some(x) == <<x>>

----------------------------------------------------------------------------
(* Calendar arithmetic of the JavaScript Date object (ECMA-262, "Date      *)
(* objects": Day, TimeWithinDay, YearFromTime, MonthFromTime, DateFromTime, *)
(* WeekDay, MakeDay), proleptic Gregorian, in days and hours                *)

Day(t) == t \div 24

TimeWithinDay(t) == t % 24

\* year, month (0 = January .. 11 = December) and day of the month of day
\* number d (0 = 1970-01-01), computed on the 400-year cycle that starts on
\* 0000-03-01
CivilFromDay(d) ==
    LET z == d + 719468
        era == z \div 146097
        doe == z % 146097
        yoe == (doe - (doe \div 1460) + (doe \div 36524) - (doe \div 146096))
                   \div 365
        doy == doe - (365 * yoe + (yoe \div 4) - (yoe \div 100))
        mp == (5 * doy + 2) \div 153
        m == IF mp < 10 THEN mp + 2 ELSE mp - 10
    IN  [ year  |-> yoe + era * 400 + (IF m <= 1 THEN 1 ELSE 0),
          month |-> m,
          date  |-> doy - ((153 * mp + 2) \div 5) + 1 ]

WeekDay(d) == (d + 4) % 7

\* MakeDay(year, month, date): the day number of the date-th day of the
\* month; date may lie outside the month (setDate overflow and underflow),
\* month may lie outside 0..11
MakeDay(year, month, date) ==
    LET ym == year + (month \div 12)
        mn == month % 12
        y == IF mn <= 1 THEN ym - 1 ELSE ym
        era == y \div 400
        yoe == y % 400
        mp == IF mn <= 1 THEN mn + 10 ELSE mn - 2
        doy == (153 * mp + 2) \div 5
        doe == yoe * 365 + (yoe \div 4) - (yoe \div 100) + doy
    IN  era * 146097 + doe - 719468 + date - 1

LocalTime(t) == t + tz

UTC(lt) == lt - tz

\* Date.prototype.getDay: local weekday, 0 = Sunday .. 6 = Saturday
getDay(t) == WeekDay(Day(LocalTime(t)))

\* Date.prototype.getDate: local day of the month
getDate(t) == CivilFromDay(Day(LocalTime(t))).date

\* Date.prototype.setDate(n): same local year, month and time of day
setDate(t, n) ==
    LET lt == LocalTime(t)
        c == CivilFromDay(Day(lt))
    IN  UTC(MakeDay(c.year, c.month, n) * 24 + TimeWithinDay(lt))

\* date.toISOString().split('T')[0]: the UTC calendar date "YYYY-MM-DD",
\* as the triple <<YYYY, MM, DD>>
toISODate(t) ==
    LET c == CivilFromDay(Day(t))
    IN  <<c.year, c.month + 1, c.date>>

\* new Date("YYYY-MM-DD"): a date-only string is UTC midnight
parseDateOnly(s) == MakeDay(s[1], s[2] - 1, s[3]) * 24

\* new Date("YYYY-MM-DDTHH:00:00"): a date-time string without offset is
\* local time
parseLocalDateTime(s, hour) == UTC(MakeDay(s[1], s[2] - 1, s[3]) * 24 + hour)

\* the local calendar date of an instant, as a triple like toISODate
localDate(t) == toISODate(LocalTime(t))

----------------------------------------------------------------------------
(* Week window builder *)

\* a week builder that forgets the Sunday case
getWeekDates_NoSundayCase(startDate) ==
    LET dayOfWeek == getDay(startDate)
        diff == 1 - dayOfWeek
        monday == setDate(startDate, getDate(startDate) + diff)
    IN  [i \in 1 .. 7 |-> setDate(monday, getDate(monday) + (i - 1))]

\* a week builder that starts its loop at 1
getWeekDates_LoopFromOne(startDate) ==
    LET dayOfWeek == getDay(startDate)
        diff == IF dayOfWeek = 0 THEN -6 ELSE 1 - dayOfWeek
        monday == setDate(startDate, getDate(startDate) + diff)
    IN  [i \in 1 .. 7 |-> setDate(monday, getDate(monday) + i)]

getWeekDates(startDate) ==
    LET dayOfWeek == getDay(startDate)
        diff == IF dayOfWeek = 0 THEN -6 ELSE 1 - dayOfWeek
        monday == setDate(startDate, getDate(startDate) + diff)
    IN  [i \in 1 .. 7 |-> setDate(monday, getDate(monday) + (i - 1))]

\* the inline copy in the dashboard's loadWeeklyWorkouts
dashboardWeekDates(today) ==
    LET currentDay == getDay(today)
        mondayOffset == IF currentDay = 0 THEN -6 ELSE 1 - currentDay
        monday == setDate(today, getDate(today) + mondayOffset)
    IN  [i \in 1 .. 7 |-> setDate(monday, getDate(monday) + (i - 1))]

----------------------------------------------------------------------------
(* Session records and the two weekly derivations *)

dayNames == <<"M", "T", "W", "T", "F", "S", "S">>

\* a scan that returns the last matching record instead of the first
RECURSIVE findLastFrom(_, _, _)
findLastFrom(sessions, k, dateString) ==
    IF k > Len(sessions) THEN 0
    ELSE IF /\ sessions[k].scheduled_date = dateString
            /\ findLastFrom(sessions, k + 1, dateString) = 0 THEN k
    ELSE findLastFrom(sessions, k + 1, dateString)

\* a scan that never looks at the last record of the list
RECURSIVE findSkipLast(_, _, _)
findSkipLast(sessions, k, dateString) ==
    IF k >= Len(sessions) THEN 0
    ELSE IF sessions[k].scheduled_date = dateString THEN k
    ELSE findSkipLast(sessions, k + 1, dateString)

\* Array.prototype.find over the fetched list, as a linear scan from index k:
\* the index of the first record whose date string is dateString, 0 if none
RECURSIVE findFrom(_, _, _)
findFrom(sessions, k, dateString) ==
    IF k > Len(sessions) THEN 0
    ELSE IF sessions[k].scheduled_date = dateString THEN k
    ELSE findFrom(sessions, k + 1, dateString)

\* trainingSessions.find(s => s.scheduled_date === dateString)
findSession(sessions, dateString) == findFrom(sessions, 1, dateString)

\* session?.scheduled_time || '00:00:00', as the hour of the day
timeOrMidnight(scheduled_time) ==
    IF scheduled_time = None THEN 0 ELSE scheduled_time[1]

\* a status rule that copies the stored status and never looks at the clock
calendarStatus_StoredOnly(session, dateString, now) ==
    IF session.status = "no_show" THEN "missed" ELSE session.status

\* calendar screen: the status of a day that matched `session`
calendarStatus(session, dateString, now) ==
    LET sessionDateTime ==
            parseLocalDateTime(dateString,
                               timeOrMidnight(session.scheduled_time))
    IN  IF session.status = "scheduled"
        THEN IF sessionDateTime < now THEN "missed" ELSE "scheduled"
        ELSE IF session.status = "no_show" THEN "missed"
        ELSE session.status

\* calendar screen: the day entry when find returned undefined
restDay(dates, index) ==
    [ dayName          |-> dayNames[index],
      dayNumber        |-> getDate(dates[index]),
      template         |-> None,
      completed        |-> FALSE,
      missed           |-> FALSE,
      sessionId        |-> None,
      scheduledTime    |-> None,
      status           |-> "rest",
      duration_minutes |-> None,
      notes            |-> None ]

\* calendar screen: the day entry when find returned `session`
sessionDay(dates, session, nows, index) ==
    [ dayName          |-> dayNames[index],
      dayNumber        |-> getDate(dates[index]),
      template         |->
          IF session.template # None
          THEN Some([id   |-> session.template[1].id,
                     name |-> session.template[1].name])
          ELSE None,
      completed        |-> session.status = "completed",
      missed           |-> FALSE,
      sessionId        |-> Some(session.id),
      scheduledTime    |-> session.scheduled_time,
      status           |->
          calendarStatus(session, toISODate(dates[index]), nows[index]),
      duration_minutes |-> session.duration_minutes,
      notes            |-> session.notes ]

\* a day builder that falls back to the first fetched record when no
\* record matches the day
calendarDay_FallbackFirst(dates, sessions, nows, index) ==
    LET k == findSession(sessions, toISODate(dates[index]))
    IN  IF k # 0 THEN sessionDay(dates, sessions[k], nows, index)
        ELSE IF Len(sessions) > 0
        THEN sessionDay(dates, sessions[1], nows, index)
        ELSE restDay(dates, index)

\* calendar screen: the body of weekDates.forEach((date, index) => ...)
calendarDay(dates, sessions, nows, index) ==
    LET k == findSession(sessions, toISODate(dates[index]))
    IN  IF k = 0
        THEN restDay(dates, index)
        ELSE sessionDay(dates, sessions[k], nows, index)

\* a loop that stops one day early
calendarWeek_SixDays(dates, sessions, nows) ==
    [index \in 1 .. Len(dates) - 1 |->
        calendarDay(dates, sessions, nows, index)]

\* calendar screen: the weeklySchedule array built by loadWeeklySchedule
calendarWeek(dates, sessions, nows) ==
    [index \in 1 .. Len(dates) |-> calendarDay(dates, sessions, nows, index)]

----------------------------------------------------------------------------
(* Weekly statistics of the calendar screen *)

\* a total that counts only the days carrying a template
RECURSIVE countTotal_TemplateOnly(_, _)
countTotal_TemplateOnly(workouts, k) ==
    IF k > Len(workouts) THEN 0
    ELSE (IF workouts[k].template # None THEN 1 ELSE 0)
            + countTotal_TemplateOnly(workouts, k + 1)

\* a total that counts every day of the week (workouts.length)
RECURSIVE countTotal_EveryDay(_, _)
countTotal_EveryDay(workouts, k) ==
    IF k > Len(workouts) THEN 0
    ELSE 1 + countTotal_EveryDay(workouts, k + 1)

\* a total that leaves the cancelled days out
RECURSIVE countTotal_SkipsCancelled(_, _)
countTotal_SkipsCancelled(workouts, k) ==
    IF k > Len(workouts) THEN 0
    ELSE (IF (workouts[k].template # None \/ workouts[k].status # "rest")
              /\ workouts[k].status # "cancelled"
          THEN 1 ELSE 0) + countTotal_SkipsCancelled(workouts, k + 1)

\* workouts.filter(pred).length, for the three predicates of the code
RECURSIVE countTotal(_, _)
countTotal(workouts, k) ==
    IF k > Len(workouts) THEN 0
    ELSE (IF workouts[k].template # None \/ workouts[k].status # "rest"
          THEN 1 ELSE 0) + countTotal(workouts, k + 1)

RECURSIVE countCompleted(_, _)
countCompleted(workouts, k) ==
    IF k > Len(workouts) THEN 0
    ELSE (IF workouts[k].status = "completed" THEN 1 ELSE 0)
            + countCompleted(workouts, k + 1)

\* a sum over the durations of all days, completed or not
RECURSIVE sumDuration_AllEntries(_, _)
sumDuration_AllEntries(workouts, k) ==
    IF k > Len(workouts) THEN 0
    ELSE (IF workouts[k].duration_minutes # None
          THEN workouts[k].duration_minutes[1] ELSE 0)
            + sumDuration_AllEntries(workouts, k + 1)

\* .filter(completed).reduce((sum, w) => sum + (w.duration_minutes || 0), 0)
RECURSIVE sumDuration(_, _)
sumDuration(workouts, k) ==
    IF k > Len(workouts) THEN 0
    ELSE (IF workouts[k].status = "completed"
             /\ workouts[k].duration_minutes # None
          THEN workouts[k].duration_minutes[1] ELSE 0)
            + sumDuration(workouts, k + 1)

RECURSIVE gcd(_, _)
gcd(a, b) == IF b = 0 THEN a ELSE gcd(b, a % b)

\* the number n / d (d > 0) in lowest terms; the code's floating-point
\* quotient is modelled by the exact rational
ratio(n, d) == [num |-> n \div gcd(n, d), den |-> d \div gcd(n, d)]

\* statistics without the guard on an empty week: 0 / 0 is NaN, written
\* here as the fraction 0 / 0
calculateWeeklyStats_NoZeroGuard(workouts) ==
    LET totalWorkouts == countTotal(workouts, 1)
        completedWorkouts == countCompleted(workouts, 1)
        totalDuration == sumDuration(workouts, 1)
        completionRate ==
            IF totalWorkouts > 0
            THEN ratio(completedWorkouts * 100, totalWorkouts)
            ELSE [num |-> 0, den |-> 0]
    IN  [ totalWorkouts     |-> totalWorkouts,
          completedWorkouts |-> completedWorkouts,
          totalDuration     |-> totalDuration,
          completionRate    |-> completionRate ]

\* calculateWeeklyStats (training-calendar.tsx:216-230)
calculateWeeklyStats(workouts) ==
    LET totalWorkouts == countTotal(workouts, 1)
        completedWorkouts == countCompleted(workouts, 1)
        totalDuration == sumDuration(workouts, 1)
        completionRate ==
            IF totalWorkouts > 0
            THEN ratio(completedWorkouts * 100, totalWorkouts)
            ELSE ratio(0, 1)
    IN  [ totalWorkouts     |-> totalWorkouts,
          completedWorkouts |-> completedWorkouts,
          totalDuration     |-> totalDuration,
          completionRate    |-> completionRate ]

----------------------------------------------------------------------------
(* Coaching dashboard *)

\* s.scheduled_date ? new Date(s.scheduled_date).toISOString().split('T')[0] : ''
dashSessionDate(s) ==
    IF s.scheduled_date # <<>>
    THEN toISODate(parseDateOnly(s.scheduled_date))
    ELSE <<>>

RECURSIVE dashFindFrom(_, _, _)
dashFindFrom(sessions, k, dateString) ==
    IF k > Len(sessions) THEN 0
    ELSE IF dashSessionDate(sessions[k]) = dateString THEN k
    ELSE dashFindFrom(sessions, k + 1, dateString)

\* workoutTemplates.find(t => t.id === session.template_id)
RECURSIVE findTemplate(_, _, _)
findTemplate(templates, k, template_id) ==
    IF k > Len(templates) THEN 0
    ELSE IF templates[k].id = template_id THEN k
    ELSE findTemplate(templates, k + 1, template_id)

\* the template reference of a matched session (part_000:136-150)
dashTemplate(session, templates) ==
    IF session.template_id # None
    THEN LET t == findTemplate(templates, 1, session.template_id[1])
         IN  IF t # 0
             THEN Some([id |-> templates[t].id, name |-> templates[t].name])
             ELSE Some([id |-> session.template_id[1], name |-> "Workout"])
    ELSE Some([ id   |-> session.id,
                name |-> IF session.session_type # None
                         THEN session.session_type[1]
                         ELSE IF session.type # None
                         THEN session.type[1]
                         ELSE "Custom Session" ])

\* the missed flag of a matched session (part_000:155-165)
dashMissed(session, dateString, now) ==
    IF session.status = "completed" THEN FALSE
    ELSE IF session.status = "no_show" \/ session.status = "cancelled"
    THEN TRUE
    ELSE parseDateOnly(dateString) < now /\ session.status = "scheduled"

\* dashboard: the body of weekDates.map((date, index) => ...)
dashboardDay(dates, sessions, templates, nows, index) ==
    LET dateString == toISODate(dates[index])
        k == dashFindFrom(sessions, 1, dateString)
    IN  IF k = 0
        THEN [ dayName       |-> dayNames[index],
               dayNumber     |-> getDate(dates[index]),
               template      |-> None,
               completed     |-> FALSE,
               missed        |-> FALSE,
               sessionId     |-> None,
               scheduledTime |-> None ]
        ELSE LET session == sessions[k]
             IN  [ dayName       |-> dayNames[index],
                   dayNumber     |-> getDate(dates[index]),
                   template      |-> dashTemplate(session, templates),
                   completed     |-> session.status = "completed",
                   missed        |->
                       dashMissed(session, dateString, nows[index]),
                   sessionId     |-> Some(session.id),
                   scheduledTime |-> session.scheduled_time ]

dashboardWeek(dates, sessions, templates, nows) ==
    [index \in 1 .. Len(dates) |->
        dashboardDay(dates, sessions, templates, nows, index)]

----------------------------------------------------------------------------
(* Bounds and input sets *)

MaxSessions == 2      \* longest fetched session list

MaxNavWeeks == 1      \* weeks navigated away from the week of the clock

MaxDayOffset == 6     \* days after each base day the clock is drawn from

TzOffsets == {-5, 0, 5}

\* a week across the leap day, and a week across the year boundary
BaseDays == {parseDateOnly(<<2024, 2, 24>>), parseDateOnly(<<2024, 12, 27>>)}

WeekClocks ==
    {b + d * 24 + h : b \in BaseDays, d \in 0 .. MaxDayOffset, h \in {0, 12, 23}}

\* instants of 2025-01-01 (UTC); with the offsets above they are local
\* times of 2024-12-31, 2025-01-01 and 2025-01-02
DeriveClocks == {parseDateOnly(<<2025, 1, 1>>) + h : h \in {3, 8, 21}}

SessionDates == {<<2024, 12, 31>>, <<2025, 1, 1>>, <<2025, 1, 6>>}

Statuses == {"scheduled", "completed", "no_show", "cancelled"}

SessionIds == <<"s1", "s2", "s3", "s4", "s5">>

PushDay == [id |-> "t1", name |-> "Push Day"]

\* the p-th record of a fetched list: its date and status are free, the
\* other columns depend on the position; the records of the other
\* positions have a duration of 30 minutes unless they are completed or
\* no_show
MkSession(p, date, status) ==
    [ id               |-> SessionIds[p],
      scheduled_date   |-> date,
      scheduled_time   |-> IF p % 3 = 1 THEN Some(8)
                           ELSE IF p % 3 = 2 THEN None ELSE Some(18),
      status           |-> status,
      template         |-> IF p % 2 = 1 THEN Some(PushDay) ELSE None,
      template_id      |-> IF p % 2 = 1 THEN Some(PushDay.id) ELSE None,
      session_type     |-> IF p % 3 = 2 THEN Some("cardio") ELSE None,
      type             |-> None,
      duration_minutes |-> IF p % 3 = 1 THEN Some(45)
                           ELSE IF status \in {"completed", "no_show"}
                           THEN None ELSE Some(30),
      notes            |-> IF p % 2 = 1 THEN Some("felt strong") ELSE None ]

SessionLists ==
    UNION { { [p \in 1 .. n |-> MkSession(p, f[p][1], f[p][2])] :
                f \in [1 .. n -> SessionDates \X Statuses] } :
            n \in 0 .. MaxSessions }

\* `now` is read once for each day of the loop; the clock advances by one
\* hour after k of the 7 days have read it
ClockReads(k) == [i \in 1 .. 7 |-> IF i > k THEN clock + 1 ELSE clock]

\* the clock advances before Monday's read, between Tuesday's and
\* Wednesday's, or not during the loop
TickPoints == {0, 2, 7}

NoStats ==
    [ totalWorkouts |-> 0, completedWorkouts |-> 0, totalDuration |-> 0,
      completionRate |-> ratio(0, 1) ]

----------------------------------------------------------------------------
(* Specification Spec: the first load of a mounted screen *)

Init ==
    /\ tz \in TzOffsets
    /\ clock \in DeriveClocks
    /\ currentWeekStart = clock
    /\ screen \in {"calendar", "dashboard"}
    /\ trainingSessions \in SessionLists
    /\ workoutTemplates = <<>>
    /\ weekDates = <<>>
    /\ dashWeekDates = <<>>
    /\ weeklyWorkouts = <<>>
    /\ weeklyStats = NoStats
    /\ nowRead = <<>>
    /\ dashWeekly = <<>>
    /\ dashNowRead = <<>>
    /\ loading = TRUE
    /\ loadingWeekly = TRUE
    /\ userProfile = Some("client")
    /\ initPending = FALSE
    /\ pendingEffects = <<>>
    /\ inflight = <<>>
    /\ refreshing = FALSE
    /\ loadOutcome = "none"
    /\ failures = 0
    /\ isRearrangeMode = FALSE
    /\ selectedItem = None
    /\ pressed = None
    /\ route = None
    /\ refreshStep = "idle"
    /\ plans = <<>>
    /\ planResult = None

\* calendar: loadWeeklySchedule, the fetch resolving with trainingSessions
LoadWeeklySchedule ==
    /\ screen = "calendar"
    /\ loading
    /\ weekDates' = getWeekDates(currentWeekStart)
    /\ \E k \in TickPoints :
        /\ nowRead' = ClockReads(k)
        /\ weeklyWorkouts' = calendarWeek(weekDates', trainingSessions, nowRead')
        /\ weeklyStats' = calculateWeeklyStats(weeklyWorkouts')
        /\ clock' = nowRead'[7]
    /\ loading' = FALSE
    /\ UNCHANGED <<tz, currentWeekStart, dashWeekDates, trainingSessions,
                   workoutTemplates, dashWeekly, dashNowRead, loadingWeekly,
                   screen>>
    /\ UNCHANGED <<uiVars, pressVars, refreshStep, planVars>>
    /\ loadOutcome' = "ok"

\* calendar: loadWeeklySchedule, the fetch rejecting (catch, finally)
LoadWeeklyScheduleFails ==
    /\ screen = "calendar"
    /\ loading
    /\ weekDates' = getWeekDates(currentWeekStart)
    /\ loading' = FALSE
    /\ UNCHANGED <<tz, clock, currentWeekStart, dashWeekDates,
                   trainingSessions, workoutTemplates, weeklyWorkouts,
                   weeklyStats, nowRead, dashWeekly, dashNowRead,
                   loadingWeekly, screen>>
    /\ UNCHANGED <<uiVars, pressVars, refreshStep, planVars>>
    /\ loadOutcome' = "failed"

\* dashboard: loadWorkoutTemplates resolving with the template catalogue
LoadWorkoutTemplates ==
    /\ screen = "dashboard"
    /\ loadingWeekly
    /\ workoutTemplates = <<>>
    /\ workoutTemplates' = <<PushDay>>
    /\ UNCHANGED <<tz, clock, currentWeekStart, weekDates, dashWeekDates,
                   trainingSessions, weeklyWorkouts, weeklyStats, nowRead,
                   dashWeekly, dashNowRead, loading, loadingWeekly, screen>>
    /\ UNCHANGED <<uiVars, pressVars, refreshStep, planVars>>
    /\ UNCHANGED loadOutcome

\* dashboard: loadWeeklyWorkouts, the fetch resolving with trainingSessions
LoadWeeklyWorkouts ==
    /\ screen = "dashboard"
    /\ loadingWeekly
    /\ dashWeekDates' = dashboardWeekDates(clock)
    /\ \E k \in TickPoints :
        /\ dashNowRead' = ClockReads(k)
        /\ dashWeekly' = dashboardWeek(dashWeekDates', trainingSessions,
                                       workoutTemplates, dashNowRead')
        /\ clock' = dashNowRead'[7]
    /\ loadingWeekly' = FALSE
    /\ UNCHANGED <<tz, currentWeekStart, weekDates, trainingSessions,
                   workoutTemplates, weeklyWorkouts, weeklyStats, nowRead,
                   loading, screen>>
    /\ UNCHANGED <<uiVars, pressVars, refreshStep, planVars>>
    /\ loadOutcome' = "ok"

\* dashboard: loadWeeklyWorkouts, the fetch rejecting (catch, finally)
LoadWeeklyWorkoutsFails ==
    /\ screen = "dashboard"
    /\ loadingWeekly
    /\ dashWeekDates' = dashboardWeekDates(clock)
    /\ loadingWeekly' = FALSE
    /\ UNCHANGED <<tz, clock, currentWeekStart, weekDates, trainingSessions,
                   workoutTemplates, weeklyWorkouts, weeklyStats, nowRead,
                   dashWeekly, dashNowRead, loading, screen>>
    /\ UNCHANGED <<uiVars, pressVars, refreshStep, planVars>>
    /\ loadOutcome' = "failed"

Next ==
    \/ LoadWeeklySchedule
    \/ LoadWeeklyScheduleFails
    \/ LoadWorkoutTemplates
    \/ LoadWeeklyWorkouts
    \/ LoadWeeklyWorkoutsFails

Spec == Init /\ [][Next]_vars

----------------------------------------------------------------------------
(* Week navigation of the calendar screen *)

\* a navigation that moves by six days
navigateWeek_SixDays(weekStart, direction) ==
    setDate(weekStart,
            getDate(weekStart) + (IF direction = "next" THEN 6 ELSE -6))

\* navigateWeek(direction): the date handed to setCurrentWeekStart
navigateWeek(weekStart, direction) ==
    setDate(weekStart,
            getDate(weekStart) + (IF direction = "next" THEN 7 ELSE -7))

----------------------------------------------------------------------------
(* Specification SpecWeek: the week window over many reference dates *)

InitWeek ==
    /\ tz \in TzOffsets
    /\ clock \in WeekClocks
    /\ currentWeekStart = clock
    /\ screen \in {"calendar", "dashboard"}
    /\ trainingSessions = <<>>
    /\ workoutTemplates = <<>>
    /\ weekDates = <<>>
    /\ dashWeekDates = <<>>
    /\ weeklyWorkouts = <<>>
    /\ weeklyStats = NoStats
    /\ nowRead = <<>>
    /\ dashWeekly = <<>>
    /\ dashNowRead = <<>>
    /\ loading = TRUE
    /\ loadingWeekly = TRUE
    /\ userProfile = Some("client")
    /\ initPending = FALSE
    /\ pendingEffects = <<>>
    /\ inflight = <<>>
    /\ refreshing = FALSE
    /\ loadOutcome = "none"
    /\ failures = 0
    /\ isRearrangeMode = FALSE
    /\ selectedItem = None
    /\ pressed = None
    /\ route = None
    /\ refreshStep = "idle"
    /\ plans = <<>>
    /\ planResult = None

\* calendar: getWeekDates(currentWeekStart) of the first load
BuildWeek ==
    /\ screen = "calendar"
    /\ weekDates = <<>>
    /\ weekDates' = getWeekDates(currentWeekStart)
    /\ UNCHANGED <<tz, clock, currentWeekStart, dashWeekDates,
                   trainingSessions, workoutTemplates, weeklyWorkouts,
                   weeklyStats, nowRead, dashWeekly, dashNowRead, loading,
                   loadingWeekly, screen>>
    /\ UNCHANGED <<uiVars, pressVars, refreshStep, planVars>>
    /\ UNCHANGED loadOutcome

\* calendar: navigateWeek(direction) and the getWeekDates(currentWeekStart)
\* of the render and reload that the state change triggers
NavigateWeek(direction) ==
    /\ screen = "calendar"
    /\ weekDates # <<>>
    /\ LET newDate == navigateWeek(currentWeekStart, direction)
       IN  /\ newDate - clock <= MaxNavWeeks * 7 * 24
           /\ clock - newDate <= MaxNavWeeks * 7 * 24
           /\ currentWeekStart' = newDate
           /\ weekDates' = getWeekDates(newDate)
    /\ UNCHANGED <<tz, clock, dashWeekDates, trainingSessions,
                   workoutTemplates, weeklyWorkouts, weeklyStats, nowRead,
                   dashWeekly, dashNowRead, loading, loadingWeekly, screen>>
    /\ UNCHANGED <<uiVars, pressVars, refreshStep, planVars>>
    /\ UNCHANGED loadOutcome

\* dashboard: the week computed inline from today = new Date()
BuildDashboardWeek ==
    /\ screen = "dashboard"
    /\ dashWeekDates = <<>>
    /\ dashWeekDates' = dashboardWeekDates(clock)
    /\ UNCHANGED <<tz, clock, currentWeekStart, weekDates, trainingSessions,
                   workoutTemplates, weeklyWorkouts, weeklyStats, nowRead,
                   dashWeekly, dashNowRead, loading, loadingWeekly, screen>>
    /\ UNCHANGED <<uiVars, pressVars, refreshStep, planVars>>
    /\ UNCHANGED loadOutcome

NextWeek ==
    \/ BuildWeek
    \/ NavigateWeek("next")
    \/ NavigateWeek("prev")
    \/ BuildDashboardWeek

SpecWeek == InitWeek /\ [][NextWeek]_vars

----------------------------------------------------------------------------
(* Properties of the week window (checked under SpecWeek) *)

\* the local day number of an instant
LocalDay(t) == Day(LocalTime(t))

\* w is 7 instants, each on the local calendar day after the previous one,
\* the first on a Monday and the last on a Sunday
IsMondayToSunday(w) ==
    /\ Len(w) = 7
    /\ \A i \in 1 .. 6 : LocalDay(w[i + 1]) = LocalDay(w[i]) + 1
    /\ WeekDay(LocalDay(w[1])) = 1
    /\ WeekDay(LocalDay(w[7])) = 0

\* C1: for every reference date the week builder of the calendar screen and
\* the inline copy of the dashboard return exactly 7 dates, each one calendar
\* day after the previous one, starting on a Monday and ending on a Sunday.
C1_WeekIsMondayToSunday ==
    /\ weekDates # <<>> => IsMondayToSunday(weekDates)
    /\ dashWeekDates # <<>> => IsMondayToSunday(dashWeekDates)

\* a week was built that starts in one year and ends in the next
C1_Witness ==
    /\ weekDates # <<>>
    /\ CivilFromDay(LocalDay(weekDates[1])).year
         < CivilFromDay(LocalDay(weekDates[7])).year
    /\ TimeWithinDay(LocalTime(currentWeekStart)) # 0

\* C2: the 7-day window contains the calendar date of the reference: the
\* Monday is 6 days before a Sunday reference and weekday - 1 days before
\* any other, so the reference lies between the Monday and the Sunday.
C2_WeekContainsReference ==
    weekDates # <<>> =>
        LET ref == LocalDay(currentWeekStart)
            weekday == WeekDay(ref)
        IN  /\ LocalDay(weekDates[1]) <= ref
            /\ ref <= LocalDay(weekDates[7])
            /\ ref - LocalDay(weekDates[1])
                 = (IF weekday = 0 THEN 6 ELSE weekday - 1)

\* a week was built for a Sunday reference late in the evening
C2_Witness ==
    /\ weekDates # <<>>
    /\ WeekDay(LocalDay(currentWeekStart)) = 0
    /\ TimeWithinDay(LocalTime(currentWeekStart)) = 23
    /\ LocalDay(currentWeekStart) = LocalDay(weekDates[7])

----------------------------------------------------------------------------
(* Specification SpecUI: the calendar screen with its asynchronous loads *)

\* effects scheduled plus loads in flight at one time
MaxPending == 2

\* fetches that are rejected in one run
MaxFailures == 1

\* the moment the screen is used
UIClock == parseDateOnly(<<2025, 1, 1>>) + 8

\* the client's rows of the training_sessions table
Backend ==
    << MkSession(1, <<2024, 12, 25>>, "cancelled"),
       MkSession(2, <<2024, 12, 31>>, "scheduled"),
       MkSession(3, <<2025, 1, 1>>, "completed"),
       MkSession(4, <<2025, 1, 8>>, "no_show"),
       MkSession(5, <<2025, 1, 2>>, "scheduled") >>

\* startDate <= endDate on 'YYYY-MM-DD' strings
DateLeq(a, b) ==
    \/ a[1] < b[1]
    \/ a[1] = b[1] /\ a[2] < b[2]
    \/ a[1] = b[1] /\ a[2] = b[2] /\ a[3] <= b[3]

\* getClientTrainingSessions(clientId, startDate, endDate) when it
\* resolves: the client's rows scheduled within the range
fetchSessions(startDate, endDate) ==
    SelectSeq(Backend,
              LAMBDA session :
                  /\ DateLeq(startDate, session.scheduled_date)
                  /\ DateLeq(session.scheduled_date, endDate))

\* the state of the dashboard, which SpecUI does not exercise
dashVars ==
    <<dashWeekDates, workoutTemplates, dashWeekly, dashNowRead, loadingWeekly>>

\* what the calendar screen displays
shownVars == <<weekDates, trainingSessions, weeklyWorkouts, weeklyStats, nowRead>>

\* s without its i-th element
RemoveAt(s, i) == SubSeq(s, 1, i - 1) \o SubSeq(s, i + 1, Len(s))

InitUI ==
    /\ tz \in TzOffsets
    /\ clock = UIClock
    /\ currentWeekStart = clock
    /\ screen = "calendar"
    /\ trainingSessions = <<>>
    /\ workoutTemplates = <<>>
    /\ weekDates = <<>>
    /\ dashWeekDates = <<>>
    /\ weeklyWorkouts = <<>>
    /\ weeklyStats = NoStats
    /\ nowRead = <<>>
    /\ dashWeekly = <<>>
    /\ dashNowRead = <<>>
    /\ loading = TRUE
    /\ loadingWeekly = TRUE
    /\ userProfile = None
    /\ initPending = TRUE
    /\ pendingEffects = <<[weekStart |-> clock, userProfile |-> None]>>
    /\ inflight = <<>>
    /\ refreshing = FALSE
    /\ loadOutcome = "none"
    /\ failures = 0
    /\ isRearrangeMode = FALSE
    /\ selectedItem = None
    /\ pressed = None
    /\ route = None
    /\ refreshStep = "idle"
    /\ plans = <<>>
    /\ planResult = None

\* the step presses no day and pushes no route
NoDayPress == pressed' = None /\ route' = None

\* initializeData finding the user and the profile: setUserProfile and the
\* setLoading(false) of finally; the render schedules the effect on
\* [currentWeekStart, userProfile].  The run of that effect at mount, with
\* no profile yet, is scheduled from the start.
InitializeData ==
    /\ initPending
    /\ initPending' = FALSE
    /\ userProfile' = Some("client")
    /\ loading' = FALSE
    /\ pendingEffects' =
         Append(pendingEffects,
                [weekStart |-> currentWeekStart, userProfile |-> Some("client")])
    /\ UNCHANGED <<tz, clock, screen, currentWeekStart, shownVars, dashVars,
                   inflight, refreshing, loadOutcome, failures>>
    /\ NoDayPress
    /\ UNCHANGED <<isRearrangeMode, selectedItem, refreshStep, planVars>>

\* initializeData without a user or a profile, or throwing
InitializeDataFails ==
    /\ initPending
    /\ initPending' = FALSE
    /\ loading' = FALSE
    /\ UNCHANGED <<tz, clock, screen, currentWeekStart, shownVars, dashVars,
                   userProfile, pendingEffects, inflight, refreshing,
                   loadOutcome, failures>>
    /\ NoDayPress
    /\ UNCHANGED <<isRearrangeMode, selectedItem, refreshStep, planVars>>

\* the main view is rendered: not the loading view, not the
\* authentication view
MainViewShown == ~loading /\ userProfile # None

\* the effect on [currentWeekStart, userProfile] running some time after
\* the render that scheduled it, with the values of that render:
\* loadWeeklySchedule up to its await
RunWeekEffect ==
    /\ pendingEffects # <<>>
    /\ pendingEffects' = Tail(pendingEffects)
    /\ IF Head(pendingEffects).userProfile # None
       THEN /\ loading' = TRUE
            /\ inflight' =
                 Append(inflight,
                        [ weekDates |->
                              getWeekDates(Head(pendingEffects).weekStart),
                          refresh   |-> FALSE ])
       ELSE UNCHANGED <<loading, inflight>>
    /\ UNCHANGED <<tz, clock, screen, currentWeekStart, shownVars, dashVars,
                   userProfile, initPending, refreshing, loadOutcome,
                   failures>>
    /\ NoDayPress
    /\ UNCHANGED <<isRearrangeMode, selectedItem, refreshStep, planVars>>

\* a press on a navigation button of the calendar header, which is
\* rendered outside rearrange mode: navigateWeek
PressNavigate(direction) ==
    /\ MainViewShown
    /\ ~isRearrangeMode
    /\ Len(pendingEffects) + Len(inflight) < MaxPending
    /\ LET newDate == navigateWeek(currentWeekStart, direction)
       IN  /\ newDate - clock <= MaxNavWeeks * 7 * 24
           /\ clock - newDate <= MaxNavWeeks * 7 * 24
           /\ currentWeekStart' = newDate
           /\ pendingEffects' =
                Append(pendingEffects,
                       [weekStart |-> newDate, userProfile |-> userProfile])
    /\ UNCHANGED <<tz, clock, screen, shownVars, dashVars, loading,
                   userProfile, initPending, inflight, refreshing,
                   loadOutcome, failures>>
    /\ NoDayPress
    /\ UNCHANGED <<isRearrangeMode, selectedItem, refreshStep, planVars>>

\* pull to refresh: handleRefresh up to the await inside loadWeeklySchedule
HandleRefresh ==
    /\ MainViewShown
    /\ ~refreshing
    /\ Len(pendingEffects) + Len(inflight) < MaxPending
    /\ refreshing' = TRUE
    /\ loading' = TRUE
    /\ inflight' = Append(inflight,
                          [ weekDates |-> getWeekDates(currentWeekStart),
                            refresh   |-> TRUE ])
    /\ UNCHANGED <<tz, clock, screen, currentWeekStart, shownVars, dashVars,
                   userProfile, initPending, pendingEffects, loadOutcome,
                   failures>>
    /\ NoDayPress
    /\ UNCHANGED <<isRearrangeMode, selectedItem, refreshStep, planVars>>

\* a load that replaces the day entries and forgets the statistics
FetchResolves_KeepsStats(i) ==
    /\ i \in 1 .. Len(inflight)
    /\ LET dates == inflight[i].weekDates
           sessions == fetchSessions(toISODate(dates[1]), toISODate(dates[7]))
           nows == [d \in 1 .. 7 |-> clock]
           weeklySchedule == calendarWeek(dates, sessions, nows)
       IN  /\ weekDates' = dates
           /\ trainingSessions' = sessions
           /\ nowRead' = nows
           /\ weeklyWorkouts' = weeklySchedule
           /\ UNCHANGED weeklyStats
    /\ loading' = FALSE
    /\ refreshing' = IF inflight[i].refresh THEN FALSE ELSE refreshing
    /\ inflight' = RemoveAt(inflight, i)
    /\ loadOutcome' = "ok"
    /\ UNCHANGED <<tz, clock, screen, currentWeekStart, dashVars,
                   userProfile, initPending, pendingEffects, failures>>
    /\ NoDayPress
    /\ UNCHANGED <<isRearrangeMode, selectedItem, refreshStep, planVars>>

\* the fetch of the i-th pending load resolving: the rest of the try block,
\* finally, and the setRefreshing(false) of handleRefresh
FetchResolves(i) ==
    /\ i \in 1 .. Len(inflight)
    /\ LET dates == inflight[i].weekDates
           sessions == fetchSessions(toISODate(dates[1]), toISODate(dates[7]))
           nows == [d \in 1 .. 7 |-> clock]
           weeklySchedule == calendarWeek(dates, sessions, nows)
       IN  /\ weekDates' = dates
           /\ trainingSessions' = sessions
           /\ nowRead' = nows
           /\ weeklyWorkouts' = weeklySchedule
           /\ weeklyStats' = calculateWeeklyStats(weeklySchedule)
    /\ loading' = FALSE
    /\ refreshing' = IF inflight[i].refresh THEN FALSE ELSE refreshing
    /\ inflight' = RemoveAt(inflight, i)
    /\ loadOutcome' = "ok"
    /\ UNCHANGED <<tz, clock, screen, currentWeekStart, dashVars,
                   userProfile, initPending, pendingEffects, failures>>
    /\ NoDayPress
    /\ UNCHANGED <<isRearrangeMode, selectedItem, refreshStep, planVars>>

\* a rejected fetch that ends handleRefresh before setRefreshing(false)
FetchRejects_KeepsRefreshing(i) ==
    /\ i \in 1 .. Len(inflight)
    /\ failures < MaxFailures
    /\ failures' = failures + 1
    /\ loading' = FALSE
    /\ UNCHANGED refreshing
    /\ inflight' = RemoveAt(inflight, i)
    /\ loadOutcome' = "failed"
    /\ UNCHANGED <<tz, clock, screen, currentWeekStart, shownVars, dashVars,
                   userProfile, initPending, pendingEffects>>
    /\ NoDayPress
    /\ UNCHANGED <<isRearrangeMode, selectedItem, refreshStep, planVars>>

\* the fetch of the i-th pending load being rejected: catch, finally, and
\* the setRefreshing(false) of handleRefresh
FetchRejects(i) ==
    /\ i \in 1 .. Len(inflight)
    /\ failures < MaxFailures
    /\ failures' = failures + 1
    /\ loading' = FALSE
    /\ refreshing' = IF inflight[i].refresh THEN FALSE ELSE refreshing
    /\ inflight' = RemoveAt(inflight, i)
    /\ loadOutcome' = "failed"
    /\ UNCHANGED <<tz, clock, screen, currentWeekStart, shownVars, dashVars,
                   userProfile, initPending, pendingEffects>>
    /\ NoDayPress
    /\ UNCHANGED <<isRearrangeMode, selectedItem, refreshStep, planVars>>

NextUI ==
    \/ InitializeData
    \/ InitializeDataFails
    \/ RunWeekEffect
    \/ \E direction \in {"prev", "next"} : PressNavigate(direction)
    \/ HandleRefresh
    \/ \E i \in 1 .. MaxPending + 1 : FetchResolves(i)
    \/ \E i \in 1 .. MaxPending + 1 : FetchRejects(i)

SpecUI == InitUI /\ [][NextUI]_vars

----------------------------------------------------------------------------
(* Specification SpecPress: SpecUI with day presses and rearrange mode *)

\* the days of the list that get pressed: Monday, Wednesday, Thursday
PressDays == {1, 3, 4}

\* the route handleWorkoutPress pushes outside rearrange mode, if any
pressRoute_AlwaysDetail(workout) ==
    IF workout.sessionId # None
    THEN Some([path |-> "/workout-detail", id |-> workout.sessionId[1]])
    ELSE IF workout.template # None
    THEN Some([path |-> "/todays-workout", id |-> workout.template[1].id])
    ELSE None

\* handleWorkoutPress outside rearrange mode: the argument of router.push,
\* None when nothing is pushed
pressRoute(workout) ==
    IF workout.sessionId # None
    THEN IF workout.status = "scheduled"
         THEN Some([path |-> "/start-workout", id |-> workout.sessionId[1]])
         ELSE IF workout.status \in {"completed", "missed", "cancelled"}
         THEN Some([path |-> "/workout-detail", id |-> workout.sessionId[1]])
         ELSE None
    ELSE IF workout.template # None
    THEN Some([path |-> "/todays-workout", id |-> workout.template[1].id])
    ELSE None

\* a selection that moves to the day pressed second
pressSelection_MovesToOther(selected, index) ==
    IF selected = None THEN Some(index)
    ELSE IF selected = Some(index) THEN None
    ELSE Some(index)

\* handleWorkoutPress in rearrange mode: the new selectedItem
pressSelection(selected, index) ==
    IF selected = None THEN Some(index)
    ELSE IF selected = Some(index) THEN None
    ELSE None

\* a toggle that keeps the selection
HandleRearrangeToggle_KeepsSelection ==
    /\ MainViewShown
    /\ isRearrangeMode' = ~isRearrangeMode
    /\ NoDayPress
    /\ UNCHANGED <<tz, clock, screen, currentWeekStart, shownVars, dashVars,
                   loading, uiVars, loadOutcome, selectedItem, refreshStep,
                   planVars>>

\* a press on the rearrange button of the header: handleRearrangeToggle
HandleRearrangeToggle ==
    /\ MainViewShown
    /\ isRearrangeMode' = ~isRearrangeMode
    /\ selectedItem' = None
    /\ NoDayPress
    /\ UNCHANGED <<tz, clock, screen, currentWeekStart, shownVars, dashVars,
                   loading, uiVars, loadOutcome, refreshStep, planVars>>

\* a press on the index-th item of the workout list: handleWorkoutPress
HandleWorkoutPress(index) ==
    /\ MainViewShown
    /\ index \in 1 .. Len(weeklyWorkouts)
    /\ pressed' = Some(index)
    /\ IF isRearrangeMode
       THEN /\ selectedItem' = pressSelection(selectedItem, index)
            /\ route' = None
       ELSE /\ route' = pressRoute(weeklyWorkouts[index])
            /\ UNCHANGED selectedItem
    /\ UNCHANGED <<tz, clock, screen, currentWeekStart, shownVars, dashVars,
                   loading, uiVars, loadOutcome, isRearrangeMode, refreshStep,
                   planVars>>

NextPress ==
    \/ NextUI
    \/ HandleRearrangeToggle
    \/ \E index \in PressDays : HandleWorkoutPress(index)

\* the press handlers read neither the clock nor the time zone: one device
\* setting is enough
InitPress ==
    /\ InitUI
    /\ tz = 0

SpecPress == InitPress /\ [][NextPress]_vars

----------------------------------------------------------------------------
(* Specification SpecRefresh: pull to refresh on both screens, with every
   pending call settling *)

InitRefresh ==
    /\ tz \in TzOffsets
    /\ clock = UIClock
    /\ currentWeekStart = clock
    /\ screen \in {"calendar", "dashboard"}
    /\ workoutTemplates = <<>>
    /\ weekDates = <<>>
    /\ dashWeekDates = <<>>
    /\ weeklyWorkouts = <<>>
    /\ weeklyStats = NoStats
    /\ nowRead = <<>>
    /\ dashWeekly = <<>>
    /\ dashNowRead = <<>>
    /\ loading = TRUE
    /\ loadingWeekly = TRUE
    /\ IF screen = "calendar"
       THEN /\ trainingSessions = <<>>
            /\ userProfile = None
            /\ initPending = TRUE
            /\ pendingEffects = <<[weekStart |-> clock, userProfile |-> None]>>
       ELSE /\ trainingSessions
                 = LET dates == dashboardWeekDates(clock)
                   IN  fetchSessions(toISODate(dates[1]), toISODate(dates[7]))
            /\ userProfile \in {None, Some("client")}
            /\ initPending = FALSE
            /\ pendingEffects = <<>>
    /\ inflight = <<>>
    /\ refreshing = FALSE
    /\ loadOutcome = "none"
    /\ failures = 0
    /\ isRearrangeMode = FALSE
    /\ selectedItem = None
    /\ pressed = None
    /\ route = None
    /\ refreshStep = "idle"
    /\ plans = <<>>
    /\ planResult = None

\* what the dashboard's handleRefresh leaves alone at every step
refreshFrame ==
    <<tz, clock, screen, currentWeekStart, weekDates, weeklyWorkouts,
      weeklyStats, nowRead, loading, userProfile, initPending,
      pendingEffects, inflight, pressVars, planVars>>

\* dashboard, pull to refresh: handleRefresh up to await refreshData()
DashHandleRefresh ==
    /\ screen = "dashboard"
    /\ refreshStep = "idle"
    /\ ~refreshing
    /\ refreshing' = TRUE
    /\ refreshStep' = "refreshData"
    /\ UNCHANGED <<refreshFrame, dashVars, trainingSessions, loadOutcome,
                   failures>>

\* dashboard: refreshData() of the useTodayDataNew hook settling; a failure
\* is reported through the hook's error value.  handleRefresh goes on to
\* await loadWorkoutTemplates()
RefreshDataSettles ==
    /\ refreshStep = "refreshData"
    /\ refreshStep' = "loadWorkoutTemplates"
    /\ UNCHANGED <<refreshFrame, dashVars, trainingSessions, refreshing,
                   loadOutcome, failures>>

\* handleRefresh after await loadWorkoutTemplates(): the weekly load if the
\* profile is there, else setRefreshing(false)
afterTemplates ==
    IF userProfile # None
    THEN /\ refreshStep' = "loadWeeklyWorkouts"
         /\ loadingWeekly' = TRUE
         /\ UNCHANGED refreshing
    ELSE /\ refreshStep' = "idle"
         /\ refreshing' = FALSE
         /\ UNCHANGED loadingWeekly

\* dashboard: getWorkoutTemplates resolving inside handleRefresh
RefreshTemplatesResolve ==
    /\ refreshStep = "loadWorkoutTemplates"
    /\ workoutTemplates' = <<PushDay>>
    /\ afterTemplates
    /\ UNCHANGED <<refreshFrame, dashWeekDates, dashWeekly, dashNowRead,
                   trainingSessions, loadOutcome, failures>>

\* dashboard: getWorkoutTemplates rejecting inside handleRefresh (catch)
RefreshTemplatesReject ==
    /\ refreshStep = "loadWorkoutTemplates"
    /\ failures < MaxFailures
    /\ failures' = failures + 1
    /\ afterTemplates
    /\ UNCHANGED <<refreshFrame, dashWeekDates, workoutTemplates, dashWeekly,
                   dashNowRead, trainingSessions, loadOutcome>>

\* dashboard: the fetch of loadWeeklyWorkouts resolving inside
\* handleRefresh, then finally and setRefreshing(false)
RefreshWeeklyResolves ==
    /\ refreshStep = "loadWeeklyWorkouts"
    /\ LET dates == dashboardWeekDates(clock)
           sessions == fetchSessions(toISODate(dates[1]), toISODate(dates[7]))
           nows == [d \in 1 .. 7 |-> clock]
       IN  /\ dashWeekDates' = dates
           /\ trainingSessions' = sessions
           /\ dashNowRead' = nows
           /\ dashWeekly' = dashboardWeek(dates, sessions, workoutTemplates,
                                          nows)
    /\ loadingWeekly' = FALSE
    /\ refreshing' = FALSE
    /\ refreshStep' = "idle"
    /\ loadOutcome' = "ok"
    /\ UNCHANGED <<refreshFrame, workoutTemplates, failures>>

\* dashboard: the fetch of loadWeeklyWorkouts rejecting inside
\* handleRefresh: catch, finally and setRefreshing(false)
RefreshWeeklyRejects ==
    /\ refreshStep = "loadWeeklyWorkouts"
    /\ failures < MaxFailures
    /\ failures' = failures + 1
    /\ loadingWeekly' = FALSE
    /\ refreshing' = FALSE
    /\ refreshStep' = "idle"
    /\ loadOutcome' = "failed"
    /\ UNCHANGED <<refreshFrame, dashWeekDates, workoutTemplates, dashWeekly,
                   dashNowRead, trainingSessions>>

\* the loads that the dashboard's effects start are those of Spec; they do
\* not touch refreshing and are left out here
NextRefresh ==
    \/ NextUI
    \/ DashHandleRefresh
    \/ RefreshDataSettles
    \/ RefreshTemplatesResolve
    \/ RefreshTemplatesReject
    \/ RefreshWeeklyResolves
    \/ RefreshWeeklyRejects

\* the i-th pending load of the calendar settles: the step that
\* FetchResolves(i) and FetchRejects(i) both take on the pending loads
FetchSettles(i) ==
    /\ i \in 1 .. Len(inflight)
    /\ inflight' = RemoveAt(inflight, i)

\* the weekly load awaited by the dashboard's handleRefresh settles: the
\* step that RefreshWeeklyResolves and RefreshWeeklyRejects both take
RefreshWeeklySettles ==
    /\ refreshStep = "loadWeeklyWorkouts"
    /\ refreshStep' = "idle"

\* every pending call settles
FetchesTerminate ==
    /\ \A i \in 1 .. MaxPending + 1 : WF_inflight(FetchSettles(i))
    /\ WF_vars(RefreshDataSettles)
    /\ WF_vars(RefreshTemplatesResolve \/ RefreshTemplatesReject)
    /\ WF_refreshStep(RefreshWeeklySettles)

SpecRefresh == InitRefresh /\ [][NextRefresh]_vars /\ FetchesTerminate

-----------------------------------------------------------------------------
(* Specification SpecPlans: the accessors of the workout_plans table
   (part_000:895-1078).  Every accessor awaits one supabase call inside
   try/catch; the call throws, or hands back {data, error}. *)

MaxPlans == 2         \* most rows the table holds

PlanIds == 1 .. MaxPlans + 1
PlanClients == {"c1", "c2"}
PlanTrainers == {"t1"}
PlanStatuses == {"active", "completed"}

\* how the awaited supabase call ends
PlanOutcomes == {"ok", "error", "throws"}

\* input of the screen state: the accessors do not touch it
screenFrame ==
    <<tz, clock, currentWeekStart, weekDates, dashWeekDates,
      trainingSessions, workoutTemplates, weeklyWorkouts, weeklyStats,
      nowRead, dashWeekly, dashNowRead, loading, loadingWeekly, screen,
      uiVars, loadOutcome, pressVars, refreshStep>>

\* the awaited call: thrown, or {data, error} with data null on an error
response(outcome, data) ==
    [ throws |-> outcome = "throws",
      error  |-> outcome = "error",
      data   |-> IF outcome = "ok" THEN data ELSE None ]

\* .order('created_at', { ascending: false }) on rows kept oldest first
newestFirst(rows) == [k \in 1 .. Len(rows) |-> rows[Len(rows) + 1 - k]]

\* the rows with .eq('id', planId)
rowsById(planId) == SelectSeq(plans, LAMBDA row : row.id = planId)

\* .single(): the one row, or an error result when there is not exactly one
single(outcome, rows) ==
    IF outcome = "ok" /\ Len(rows) # 1
    THEN response("error", None)
    ELSE response(outcome, IF Len(rows) = 1 THEN Some(rows[1]) ELSE None)

\* body of the list queries: catch -> [], error -> [], else data || []
listResult(r) ==
    IF r.throws THEN <<>>
    ELSE IF r.error THEN <<>>
    ELSE IF r.data = None THEN <<>> ELSE r.data[1]

\* body of get/create/update: catch -> null, error -> null, else data
rowResult(r) ==
    IF r.throws THEN None
    ELSE IF r.error THEN None
    ELSE r.data

\* a delete that reports success whenever nothing was thrown
deleteResult_IgnoresError(r) ==
    IF r.throws THEN FALSE ELSE TRUE

\* body of deleteWorkoutPlan: catch -> false, error -> false, else true
deleteResult(r) ==
    IF r.throws THEN FALSE
    ELSE IF r.error THEN FALSE
    ELSE TRUE

\* the record of a call: the accessor, how the backend call ended as the
\* accessor saw it, and the value the accessor returned
called(accessor, r, value) ==
    Some([ accessor |-> accessor,
           outcome  |-> IF r.throws THEN "throws"
                        ELSE IF r.error THEN "error" ELSE "ok",
           value    |-> value ])

getWorkoutPlansForClient(clientId, outcome) ==
    LET rows == SelectSeq(plans, LAMBDA row : /\ row.client_id = clientId
                                              /\ row.status = "active")
        r == response(outcome, Some(newestFirst(rows)))
    IN  /\ planResult' = called("getWorkoutPlansForClient", r, listResult(r))
        /\ UNCHANGED <<plans, screenFrame>>

getWorkoutPlanById(planId, outcome) ==
    LET r == single(outcome, rowsById(planId))
    IN  /\ planResult' = called("getWorkoutPlanById", r, rowResult(r))
        /\ UNCHANGED <<plans, screenFrame>>

createWorkoutPlan(planData, outcome) ==
    /\ Len(plans) < MaxPlans
    /\ LET used == {plans[k].id : k \in 1 .. Len(plans)}
           id == CHOOSE n \in PlanIds \ used :
                     \A m \in PlanIds \ used : n <= m
           row == [ id        |-> id,
                    client_id |-> planData.client_id,
                    trainer_id |-> planData.trainer_id,
                    status    |-> planData.status ]
           r == single(outcome, <<row>>)
       IN  /\ plans' = IF outcome = "ok" THEN Append(plans, row) ELSE plans
           /\ planResult' = called("createWorkoutPlan", r, rowResult(r))
    /\ UNCHANGED screenFrame

updateWorkoutPlan(planId, updates, outcome) ==
    LET changed == [k \in 1 .. Len(plans) |->
                       IF plans[k].id = planId
                       THEN [plans[k] EXCEPT !.status = updates.status]
                       ELSE plans[k]]
        rows == SelectSeq(changed, LAMBDA row : row.id = planId)
        r == single(outcome, rows)
    IN  /\ plans' = IF outcome = "ok" THEN changed ELSE plans
        /\ planResult' = called("updateWorkoutPlan", r, rowResult(r))
        /\ UNCHANGED screenFrame

deleteWorkoutPlan(planId, outcome) ==
    LET r == response(outcome, None)
    IN  /\ plans' = IF outcome = "ok"
                    THEN SelectSeq(plans, LAMBDA row : row.id # planId)
                    ELSE plans
        /\ planResult' = called("deleteWorkoutPlan", r, deleteResult(r))
        /\ UNCHANGED screenFrame

getWorkoutPlansForTrainer(trainerId, outcome) ==
    LET rows == SelectSeq(plans, LAMBDA row : row.trainer_id = trainerId)
        r == response(outcome, Some(newestFirst(rows)))
    IN  /\ planResult' = called("getWorkoutPlansForTrainer", r, listResult(r))
        /\ UNCHANGED <<plans, screenFrame>>

getActiveWorkoutPlans(outcome) ==
    LET rows == SelectSeq(plans, LAMBDA row : row.status = "active")
        r == response(outcome, Some(newestFirst(rows)))
    IN  /\ planResult' = called("getActiveWorkoutPlans", r, listResult(r))
        /\ UNCHANGED <<plans, screenFrame>>

NextPlans ==
    \E outcome \in PlanOutcomes :
        \/ \E clientId \in PlanClients :
               getWorkoutPlansForClient(clientId, outcome)
        \/ \E planId \in PlanIds : getWorkoutPlanById(planId, outcome)
        \/ \E planData \in [ client_id : PlanClients,
                             trainer_id : PlanTrainers,
                             status : PlanStatuses ] :
               createWorkoutPlan(planData, outcome)
        \/ \E planId \in PlanIds, updates \in [status : PlanStatuses] :
               updateWorkoutPlan(planId, updates, outcome)
        \/ \E planId \in PlanIds : deleteWorkoutPlan(planId, outcome)
        \/ \E trainerId \in PlanTrainers :
               getWorkoutPlansForTrainer(trainerId, outcome)
        \/ getActiveWorkoutPlans(outcome)

\* the accessors called in any order on a table that starts empty
SpecPlans == InitUI /\ [][NextPlans]_vars

----------------------------------------------------------------------------
(* Properties of the weekly derivation (checked under Spec) *)

CalendarLoaded == weeklyWorkouts # <<>>

DashboardLoaded == dashWeekly # <<>>

\* the fetched record with identifier id
SessionById(id) ==
    LET j == CHOOSE j \in 1 .. Len(trainingSessions) :
                 trainingSessions[j].id = id
    IN  trainingSessions[j]

\* the indices of the fetched records dated like the day's date string
MatchesOf(date) ==
    {j \in 1 .. Len(trainingSessions) :
        trainingSessions[j].scheduled_date = toISODate(date)}

\* scheduled date and time of a record as local hours since 1970
ScheduledAt(s) ==
    MakeDay(s.scheduled_date[1], s.scheduled_date[2] - 1, s.scheduled_date[3])
        * 24
      + (IF s.scheduled_time = None THEN 0 ELSE s.scheduled_time[1])

\* every entry with a session shows the local date that session is
\* scheduled on: the date string it was matched by is its local date
AttachedToOwnDate(entries, dates) ==
    \A i \in 1 .. Len(entries) :
        entries[i].sessionId # None =>
            /\ SessionById(entries[i].sessionId[1]).scheduled_date
                  = localDate(dates[i])
            /\ toISODate(dates[i]) = localDate(dates[i])

\* C3: for every reference date, time of day and offset from UTC, the
\* session attached to a day entry is scheduled on the local calendar date
\* that the entry displays; the date string used for matching is never the
\* previous or the next calendar day.
C3_AttachedSessionIsOfTheDay ==
    /\ CalendarLoaded => AttachedToOwnDate(weeklyWorkouts, weekDates)
    /\ DashboardLoaded => AttachedToOwnDate(dashWeekly, dashWeekDates)

\* entries are the 7 days of the Monday-to-Sunday window dates, in order
SevenDaysInOrder(entries, dates) ==
    /\ Len(entries) = 7
    /\ IsMondayToSunday(dates)
    /\ \A i \in 1 .. 7 :
        /\ entries[i].dayNumber
             = CivilFromDay(LocalDay(dates[1]) + i - 1).date
        /\ entries[i].dayName = dayNames[i]

\* C4: for every session list a successful weekly derivation produces
\* exactly 7 day entries, entry i for the i-th date of the Monday-to-Sunday
\* window, in the order of the week.
C4_SevenEntriesInWeekOrder ==
    /\ CalendarLoaded => SevenDaysInOrder(weeklyWorkouts, weekDates)
    /\ DashboardLoaded => SevenDaysInOrder(dashWeekly, dashWeekDates)

\* a calendar week was derived from two records of the same date, and a
\* dashboard week likewise
C4_Witness ==
    /\ CalendarLoaded
    /\ Len(trainingSessions) = 2
    /\ trainingSessions[1].scheduled_date = trainingSessions[2].scheduled_date
    /\ weeklyWorkouts[1].dayNumber > weeklyWorkouts[7].dayNumber
    /\ \E i \in 1 .. 7 : weeklyWorkouts[i].sessionId # None

\* C5: a no_show session yields day status missed, a cancelled session
\* yields day status cancelled, and no weekly derivation of the program
\* (calendar screen or dashboard) reports a cancelled session as missed.
C5_CancelledNeverMissed ==
    /\ CalendarLoaded =>
         \A i \in 1 .. Len(weeklyWorkouts) :
            weeklyWorkouts[i].sessionId # None =>
                LET s == SessionById(weeklyWorkouts[i].sessionId[1])
                IN  /\ s.status = "no_show"
                         => weeklyWorkouts[i].status = "missed"
                    /\ s.status = "cancelled"
                         => weeklyWorkouts[i].status = "cancelled"
    /\ DashboardLoaded =>
         \A i \in 1 .. Len(dashWeekly) :
            dashWeekly[i].sessionId # None =>
                LET s == SessionById(dashWeekly[i].sessionId[1])
                IN  /\ s.status = "no_show" => dashWeekly[i].missed
                    /\ s.status = "cancelled" => ~dashWeekly[i].missed

\* C6: on the calendar screen a scheduled session whose date and time
\* (00:00:00 when the time is absent) lie strictly before now yields day
\* status missed; a scheduled session dated the day before now is missed
\* whatever its time.
C6_PastScheduledIsMissed ==
    CalendarLoaded =>
        \A i \in 1 .. Len(weeklyWorkouts) :
            weeklyWorkouts[i].sessionId # None =>
                LET s == SessionById(weeklyWorkouts[i].sessionId[1])
                    now == LocalTime(nowRead[i])
                IN  s.status = "scheduled" =>
                      /\ ScheduledAt(s) < now
                           => weeklyWorkouts[i].status = "missed"
                      /\ Day(ScheduledAt(s)) = Day(now) - 1
                           => weeklyWorkouts[i].status = "missed"

\* a scheduled session of 08:00 yesterday was classified, and so was a
\* scheduled session without a time, earlier today
C6_Witness ==
    /\ CalendarLoaded
    /\ \E i \in 1 .. 7 :
        /\ weeklyWorkouts[i].sessionId # None
        /\ LET s == SessionById(weeklyWorkouts[i].sessionId[1])
           IN  /\ s.status = "scheduled"
               /\ s.scheduled_time = Some(8)
               /\ Day(ScheduledAt(s)) = Day(LocalTime(nowRead[i])) - 1
               /\ weeklyWorkouts[i].status = "missed"
    /\ \E i \in 1 .. 7 :
        /\ weeklyWorkouts[i].sessionId # None
        /\ LET s == SessionById(weeklyWorkouts[i].sessionId[1])
           IN  /\ s.status = "scheduled"
               /\ s.scheduled_time = None
               /\ Day(ScheduledAt(s)) = Day(LocalTime(nowRead[i]))
               /\ weeklyWorkouts[i].status = "missed"

\* C7: a scheduled session whose date and time are not strictly before now
\* (now itself or later: later today, tomorrow) yields day status
\* scheduled and is never reported as missed, on either screen.
C7_NotPastStaysScheduled ==
    /\ CalendarLoaded =>
         \A i \in 1 .. Len(weeklyWorkouts) :
            weeklyWorkouts[i].sessionId # None =>
                LET s == SessionById(weeklyWorkouts[i].sessionId[1])
                IN  (s.status = "scheduled"
                       /\ ScheduledAt(s) >= LocalTime(nowRead[i]))
                      => weeklyWorkouts[i].status = "scheduled"
    /\ DashboardLoaded =>
         \A i \in 1 .. Len(dashWeekly) :
            dashWeekly[i].sessionId # None =>
                LET s == SessionById(dashWeekly[i].sessionId[1])
                IN  (s.status = "scheduled"
                       /\ ScheduledAt(s) >= LocalTime(dashNowRead[i]))
                      => ~dashWeekly[i].missed

\* the session identifier of entry i is set exactly when some fetched
\* record is dated like the entry, and then it names such a record
IdIffMatched(entries, dates) ==
    \A i \in 1 .. Len(entries) :
        /\ entries[i].sessionId # None <=> MatchesOf(dates[i]) # {}
        /\ entries[i].sessionId # None =>
             \E j \in MatchesOf(dates[i]) :
                 entries[i].sessionId = Some(trainingSessions[j].id)

\* C8: in every derived week a day entry's session identifier is set if
\* and only if some session record's scheduled date matched the entry's
\* date (the date string the derivation computes for that day).
C8_SessionIdIffMatched ==
    /\ CalendarLoaded => IdIffMatched(weeklyWorkouts, weekDates)
    /\ DashboardLoaded => IdIffMatched(dashWeekly, dashWeekDates)

\* a calendar week with a matched day, an unmatched day, and a fetched
\* record that no day of the week matched
C8_Witness ==
    /\ CalendarLoaded
    /\ \E i \in 1 .. 7 : weeklyWorkouts[i].sessionId # None
    /\ \E i \in 1 .. 7 : weeklyWorkouts[i].sessionId = None
    /\ \E j \in 1 .. Len(trainingSessions) :
        \A i \in 1 .. 7 :
            weeklyWorkouts[i].sessionId # Some(trainingSessions[j].id)
    /\ trainingSessions[Len(trainingSessions)].id
         \in {weeklyWorkouts[i].sessionId[1] :
                i \in {d \in 1 .. 7 : weeklyWorkouts[d].sessionId # None}}

\* the smallest element of a non-empty set of indices
First(S) == CHOOSE j \in S : \A k \in S : j <= k

\* the fetched list without the records that repeat an earlier record's date
RECURSIVE WithoutLaterDuplicates(_, _)
WithoutLaterDuplicates(sessions, k) ==
    IF k > Len(sessions) THEN <<>>
    ELSE (IF \E j \in 1 .. k - 1 :
                sessions[j].scheduled_date = sessions[k].scheduled_date
          THEN <<>> ELSE <<sessions[k]>>)
            \o WithoutLaterDuplicates(sessions, k + 1)

\* C9: when several session records have the same scheduled date, the day
\* entry of that date is built from the first of them in the order of the
\* fetched list (identifier, status, time, duration, notes), and the later
\* duplicates change neither the day entries nor the weekly statistics.
C9_FirstDuplicateWins ==
    /\ CalendarLoaded =>
         /\ \A i \in 1 .. Len(weeklyWorkouts) :
              MatchesOf(weekDates[i]) # {} =>
                LET s == trainingSessions[First(MatchesOf(weekDates[i]))]
                    e == weeklyWorkouts[i]
                IN  /\ e.sessionId = Some(s.id)
                    /\ e.scheduledTime = s.scheduled_time
                    /\ e.duration_minutes = s.duration_minutes
                    /\ e.notes = s.notes
                    /\ e.completed <=> s.status = "completed"
                    /\ e.status = "completed" <=> s.status = "completed"
                    /\ e.status = "cancelled" <=> s.status = "cancelled"
                    /\ s.status = "no_show" => e.status = "missed"
                    /\ s.status = "scheduled"
                         => e.status \in {"scheduled", "missed"}
         /\ weeklyWorkouts
              = calendarWeek(weekDates,
                             WithoutLaterDuplicates(trainingSessions, 1),
                             nowRead)
         /\ weeklyStats
              = calculateWeeklyStats(
                  calendarWeek(weekDates,
                               WithoutLaterDuplicates(trainingSessions, 1),
                               nowRead))
    /\ DashboardLoaded =>
         /\ \A i \in 1 .. Len(dashWeekly) :
              MatchesOf(dashWeekDates[i]) # {} =>
                LET s == trainingSessions[First(MatchesOf(dashWeekDates[i]))]
                    e == dashWeekly[i]
                IN  /\ e.sessionId = Some(s.id)
                    /\ e.scheduledTime = s.scheduled_time
                    /\ e.completed <=> s.status = "completed"
         /\ dashWeekly
              = dashboardWeek(dashWeekDates,
                              WithoutLaterDuplicates(trainingSessions, 1),
                              workoutTemplates, dashNowRead)

\* a calendar week in which a day matched two records of different status,
\* the first of them completed
C9_Witness ==
    /\ CalendarLoaded
    /\ Len(trainingSessions) = 2
    /\ trainingSessions[1].scheduled_date = trainingSessions[2].scheduled_date
    /\ trainingSessions[1].status = "completed"
    /\ trainingSessions[2].status = "cancelled"
    /\ \E i \in 1 .. 7 :
        /\ Cardinality(MatchesOf(weekDates[i])) = 2
        /\ weeklyWorkouts[i].sessionId = Some(trainingSessions[1].id)
    /\ weeklyStats.completedWorkouts = 1
    /\ weeklyStats.totalWorkouts = 1

\* C10: on the calendar screen a day of the week that no session record
\* matches gets status rest, no template, no session identifier and no
\* scheduled time, duration or notes.
C10_UnmatchedDayIsRest ==
    CalendarLoaded =>
        \A i \in 1 .. Len(weeklyWorkouts) :
            MatchesOf(weekDates[i]) = {} =>
                /\ weeklyWorkouts[i].status = "rest"
                /\ weeklyWorkouts[i].template = None
                /\ weeklyWorkouts[i].sessionId = None
                /\ weeklyWorkouts[i].scheduledTime = None
                /\ weeklyWorkouts[i].duration_minutes = None
                /\ weeklyWorkouts[i].notes = None

\* a calendar week derived from a non-empty list with an unmatched day next
\* to a matched one
C10_Witness ==
    /\ CalendarLoaded
    /\ trainingSessions # <<>>
    /\ \E i \in 1 .. 6 :
        /\ MatchesOf(weekDates[i]) # {}
        /\ MatchesOf(weekDates[i + 1]) = {}
        /\ weeklyWorkouts[i].status # "rest"
        /\ weeklyWorkouts[i + 1].status = "rest"

\* C11: for a matched session that carries no template the day entry's
\* template reference is a synthesized fallback (identifier: the session's
\* own identifier, name: the session-type label or "Custom Session"), so
\* every day entry of a matched session has a template reference.
C11_MatchedDayHasTemplate ==
    /\ CalendarLoaded =>
         \A i \in 1 .. Len(weeklyWorkouts) :
            weeklyWorkouts[i].sessionId # None =>
                LET s == SessionById(weeklyWorkouts[i].sessionId[1])
                    e == weeklyWorkouts[i]
                IN  /\ e.template # None
                    /\ s.template = None =>
                          /\ e.template[1].id = s.id
                          /\ e.template[1].name
                                = (IF s.session_type # None
                                   THEN s.session_type[1]
                                   ELSE IF s.type # None THEN s.type[1]
                                   ELSE "Custom Session")
    /\ DashboardLoaded =>
         \A i \in 1 .. Len(dashWeekly) :
            dashWeekly[i].sessionId # None =>
                LET s == SessionById(dashWeekly[i].sessionId[1])
                    e == dashWeekly[i]
                IN  /\ e.template # None
                    /\ s.template_id = None =>
                          /\ e.template[1].id = s.id
                          /\ e.template[1].name
                                = (IF s.session_type # None
                                   THEN s.session_type[1]
                                   ELSE IF s.type # None THEN s.type[1]
                                   ELSE "Custom Session")

\* the days of the displayed week that the statistics count
CountedDays ==
    {i \in 1 .. Len(weeklyWorkouts) :
        weeklyWorkouts[i].template # None
            \/ weeklyWorkouts[i].status # "rest"}

\* the days of the displayed week that matched a fetched record
MatchedDays ==
    {i \in 1 .. Len(weekDates) : MatchesOf(weekDates[i]) # {}}

\* C12: totalWorkouts is the number of the 7 day entries whose template
\* reference is present or whose status is not rest, which is the number
\* of days that matched a session.
C12_TotalCountsMatchedDays ==
    CalendarLoaded =>
        /\ Len(weeklyWorkouts) = 7
        /\ weeklyStats.totalWorkouts = Cardinality(CountedDays)
        /\ weeklyStats.totalWorkouts = Cardinality(MatchedDays)

\* a week with two matched days, one of a session without a template
C12_Witness ==
    /\ CalendarLoaded
    /\ weeklyStats.totalWorkouts = 2
    /\ \E i, j \in 1 .. 7 :
        /\ weeklyWorkouts[i].sessionId # None
        /\ weeklyWorkouts[i].template # None
        /\ weeklyWorkouts[j].sessionId # None
        /\ weeklyWorkouts[j].template = None

\* C13: completionRate is 0 when totalWorkouts is 0 and otherwise
\* 100 * completedWorkouts / totalWorkouts; it is always a defined number
\* within 0..100, and completedWorkouts never exceeds totalWorkouts.
C13_CompletionRateDefined ==
    CalendarLoaded =>
        LET st == weeklyStats
            r == st.completionRate
        IN  /\ r.den > 0
            /\ 0 <= r.num
            /\ r.num <= 100 * r.den
            /\ st.completedWorkouts <= st.totalWorkouts
            /\ st.totalWorkouts = 0 => r.num = 0
            /\ st.totalWorkouts > 0 =>
                  r.num * st.totalWorkouts
                      = 100 * st.completedWorkouts * r.den

\* a week of two counted days, one of them completed: the rate is 50
C13_Witness ==
    /\ CalendarLoaded
    /\ weeklyStats.totalWorkouts = 2
    /\ weeklyStats.completedWorkouts = 1
    /\ weeklyStats.completionRate = [num |-> 50, den |-> 1]

\* the days of the displayed week with status completed
CompletedDays ==
    {i \in 1 .. Len(weeklyWorkouts) : weeklyWorkouts[i].status = "completed"}

\* duration of a day entry, 0 when absent
MinutesOf(e) ==
    IF e.duration_minutes = None THEN 0 ELSE e.duration_minutes[1]

\* the sum of MinutesOf over the days in S
RECURSIVE SumMinutes(_)
SumMinutes(S) ==
    IF S = {} THEN 0
    ELSE LET i == CHOOSE i \in S : TRUE
         IN  MinutesOf(weeklyWorkouts[i]) + SumMinutes(S \ {i})

\* C14: totalDuration is the sum of the duration minutes over exactly the
\* day entries with status completed, a missing duration counting as 0;
\* scheduled, missed and cancelled days never contribute.  A single
\* completed session of 45 minutes gives completedWorkouts 1,
\* totalDuration 45 and completionRate 100.
C14_DurationOfCompletedDays ==
    CalendarLoaded =>
        /\ weeklyStats.totalDuration = SumMinutes(CompletedDays)
        /\ weeklyStats.completedWorkouts = Cardinality(CompletedDays)
        /\ (/\ Cardinality(MatchedDays) = 1
            /\ \E i \in CompletedDays :
                  weeklyWorkouts[i].duration_minutes = Some(45))
             => /\ weeklyStats.completedWorkouts = 1
                /\ weeklyStats.totalDuration = 45
                /\ weeklyStats.completionRate = [num |-> 100, den |-> 1]

\* a week with a completed day of 45 minutes next to a day that is not
\* completed and has a duration all the same
C14_Witness ==
    /\ CalendarLoaded
    /\ weeklyStats.totalDuration = 45
    /\ \E i, j \in 1 .. 7 :
        /\ weeklyWorkouts[i].status = "completed"
        /\ weeklyWorkouts[i].duration_minutes = Some(45)
        /\ weeklyWorkouts[j].status \in {"scheduled", "missed", "cancelled"}
        /\ weeklyWorkouts[j].duration_minutes # None

\* C15: when the fetched session set is empty the derivation still
\* produces 7 day entries, all with status rest, and the statistics are
\* totalWorkouts 0, completedWorkouts 0, totalDuration 0, completionRate 0.
C15_EmptySetIsAllRest ==
    (CalendarLoaded /\ trainingSessions = <<>>) =>
        /\ Len(weeklyWorkouts) = 7
        /\ \A i \in 1 .. 7 :
              /\ weeklyWorkouts[i].status = "rest"
              /\ weeklyWorkouts[i].sessionId = None
        /\ weeklyStats.totalWorkouts = 0
        /\ weeklyStats.completedWorkouts = 0
        /\ weeklyStats.totalDuration = 0
        /\ weeklyStats.completionRate = [num |-> 0, den |-> 1]

\* a calendar week derived from an empty fetch result
C15_Witness ==
    /\ CalendarLoaded
    /\ loadOutcome = "ok"
    /\ trainingSessions = <<>>
    /\ Len(weeklyWorkouts) = 7

\* the days of the displayed week that came from a cancelled session
CancelledDays ==
    {i \in 1 .. Len(weeklyWorkouts) :
        /\ weeklyWorkouts[i].sessionId # None
        /\ SessionById(weeklyWorkouts[i].sessionId[1]).status = "cancelled"}

\* C16 as stated: a session with stored status cancelled yields day status
\* cancelled and that day does not count toward totalWorkouts, with or
\* without a template.
C16_CancelledNotCounted ==
    CalendarLoaded =>
        /\ \A i \in CancelledDays : weeklyWorkouts[i].status = "cancelled"
        /\ weeklyStats.totalWorkouts
              = Cardinality(CountedDays \ CancelledDays)

\* C16: a session with stored status cancelled yields day status cancelled
\* and that day counts toward totalWorkouts (its status is not rest), both
\* when the session has a template and when it has none: totalWorkouts is
\* the number of cancelled days plus the number of the other counted days.
C16_CancelledCounts ==
    CalendarLoaded =>
        /\ \A i \in CancelledDays : weeklyWorkouts[i].status = "cancelled"
        /\ CancelledDays \subseteq CountedDays
        /\ weeklyStats.totalWorkouts
              = Cardinality(CancelledDays)
                  + Cardinality(CountedDays \ CancelledDays)

\* a week with two cancelled days, one of a session with a template and one
\* of a session without
C16_Witness ==
    /\ CalendarLoaded
    /\ weeklyStats.totalWorkouts = 2
    /\ \E i, j \in CancelledDays :
        /\ weeklyWorkouts[i].template # None
        /\ weeklyWorkouts[j].template = None

----------------------------------------------------------------------------
(* Properties of the calendar screen's loads (checked under SpecUI) *)

\* nothing is scheduled or in flight
Settled == ~initPending /\ pendingEffects = <<>> /\ inflight = <<>>

\* C17: when the session fetch fails, the week is shown fully as rest days:
\* after the failed load the displayed week has 7 day entries, all with
\* status rest, for the currently selected week (not an empty list and not
\* the entries of a previously loaded week).
C17_FailedLoadShowsRestWeek ==
    (Settled /\ loadOutcome = "failed") =>
        /\ Len(weeklyWorkouts) = 7
        /\ \A i \in 1 .. Len(weeklyWorkouts) :
              /\ weeklyWorkouts[i].status = "rest"
              /\ weeklyWorkouts[i].dayNumber
                    = getDate(getWeekDates(currentWeekStart)[i])

\* C18: stale results are discarded: once all the weekly fetches have
\* completed (none of them failing), in whatever order, the displayed day
\* entries and statistics are those of the currently selected week.
C18_StaleResultsDiscarded ==
    (Settled /\ loadOutcome = "ok" /\ failures = 0) =>
        LET dates == getWeekDates(currentWeekStart)
            sessions == fetchSessions(toISODate(dates[1]), toISODate(dates[7]))
            entries == calendarWeek(dates, sessions, [d \in 1 .. 7 |-> clock])
        IN  /\ weekDates = dates
            /\ weeklyWorkouts = entries
            /\ weeklyStats = calculateWeeklyStats(entries)

----------------------------------------------------------------------------
(* Properties of the clock reads (checked under Spec) *)

\* C19: the derivation is deterministic with respect to one now: it reads
\* no clock of its own while it runs, so all 7 days are classified against
\* one and the same instant, the one the derivation started with, and the
\* day entries and statistics are those that this instant determines.
C19_OneInstantPerDerivation ==
    /\ CalendarLoaded =>
         LET now == [i \in 1 .. 7 |-> nowRead[1]]
             entries == calendarWeek(weekDates, trainingSessions, now)
         IN  /\ weeklyWorkouts = entries
             /\ weeklyStats = calculateWeeklyStats(entries)
    /\ DashboardLoaded =>
         LET now == [i \in 1 .. 7 |-> dashNowRead[1]]
         IN  dashWeekly = dashboardWeek(dashWeekDates, trainingSessions,
                                        workoutTemplates, now)

----------------------------------------------------------------------------
(* Properties of the day presses (checked under SpecPress) *)

\* the entry at position i with the workout data of entry e: the day's
\* name and number stay with the position
WithWorkoutOf(i, e) ==
    [e EXCEPT !.dayName = weeklyWorkouts[i].dayName,
              !.dayNumber = weeklyWorkouts[i].dayNumber]

\* weeklyWorkouts with the workout data of positions i and j exchanged
Swapped(i, j) ==
    [k \in 1 .. Len(weeklyWorkouts) |->
        IF k = i THEN WithWorkoutOf(i, weeklyWorkouts[j])
        ELSE IF k = j THEN WithWorkoutOf(j, weeklyWorkouts[i])
        ELSE weeklyWorkouts[k]]

\* C21: in rearrange mode, tapping a workout to select it and then tapping
\* a different day swaps the two days' workouts: the workout data of the
\* two positions are exchanged and all other positions are unchanged.
C21_SecondTapSwaps ==
    [][(/\ isRearrangeMode
        /\ selectedItem # None
        /\ pressed' # None
        /\ pressed' # selectedItem)
          => weeklyWorkouts' = Swapped(selectedItem[1], pressed'[1])]_vars

----------------------------------------------------------------------------
(* The two derivations compared (checked under Spec) *)

\* C22: the calendar screen and the dashboard diverge only on the cancelled
\* status: for every matched session whose stored status is not cancelled,
\* and every now, the dashboard's completed flag is true iff the calendar's
\* status is completed and its missed flag is true iff the calendar's
\* status is missed.
C22_DivergeOnlyOnCancelled ==
    CalendarLoaded =>
        \A i \in 1 .. Len(weeklyWorkouts) :
            weeklyWorkouts[i].sessionId # None =>
                LET s == SessionById(weeklyWorkouts[i].sessionId[1])
                    d == dashboardDay(weekDates, trainingSessions,
                                      workoutTemplates, nowRead, i)
                IN  s.status # "cancelled" =>
                      /\ d.sessionId = weeklyWorkouts[i].sessionId
                      /\ d.completed
                            <=> weeklyWorkouts[i].status = "completed"
                      /\ d.missed <=> weeklyWorkouts[i].status = "missed"

----------------------------------------------------------------------------
(* Properties of the calendar screen's state (checked under SpecUI) *)

\* the aggregate of the displayed day entries
DisplayedAggregate ==
    LET total == Cardinality(CountedDays)
        completed == Cardinality(CompletedDays)
    IN  [ totalWorkouts     |-> total,
          completedWorkouts |-> completed,
          totalDuration     |-> SumMinutes(CompletedDays),
          completionRate    |->
              IF total = 0 THEN [num |-> 0, den |-> 1]
              ELSE ratio(100 * completed, total) ]

\* C23: on the calendar screen the displayed statistics always agree with
\* the displayed day entries: in every reachable state (initial, after
\* successful loads, failed loads, refreshes and week navigations)
\* weeklyStats is the aggregate of the current weeklyWorkouts.
C23_StatsAgreeWithEntries == weeklyStats = DisplayedAggregate

\* a week with counted days is displayed after a later load has failed
C23_Witness ==
    /\ loadOutcome = "failed"
    /\ Len(weeklyWorkouts) = 7
    /\ weeklyStats.totalWorkouts > 0
    /\ weeklyStats.completedWorkouts > 0

\* C24: while at least one weekly-schedule fetch is in flight on the
\* calendar screen, loading is true: the completion of an earlier load
\* does not clear the flag while a later one is pending.
C24_LoadingWhileInFlight == inflight # <<>> => loading

----------------------------------------------------------------------------
(* More properties of the day presses (checked under SpecPress) *)

\* C26: outside rearrange mode a press on a day navigates according to its
\* entry: with a session identifier and status scheduled to start-workout
\* for that session; with a session identifier and status completed,
\* missed or cancelled to workout-detail for that session; with no session
\* identifier but a template to todays-workout for that template; a rest
\* day with neither causes no navigation.  The press changes neither
\* weeklyWorkouts nor weeklyStats nor selectedItem.
C26_PressNavigatesByEntry ==
    [][(pressed' # None /\ ~isRearrangeMode) =>
         LET e == weeklyWorkouts[pressed'[1]]
         IN  /\ (e.sessionId # None /\ e.status = "scheduled")
                   => route' = Some([path |-> "/start-workout",
                                     id   |-> e.sessionId[1]])
             /\ (e.sessionId # None
                    /\ e.status \in {"completed", "missed", "cancelled"})
                   => route' = Some([path |-> "/workout-detail",
                                     id   |-> e.sessionId[1]])
             /\ (e.sessionId = None /\ e.template # None)
                   => route' = Some([path |-> "/todays-workout",
                                     id   |-> e.template[1].id])
             /\ (e.sessionId = None /\ e.template = None)
                   => route' = None
             /\ UNCHANGED <<weeklyWorkouts, weeklyStats, selectedItem>>]_vars

\* the press on the scheduled session of Thursday pushed start-workout
C26_Witness ==
    /\ ~isRearrangeMode
    /\ pressed = Some(4)
    /\ weeklyWorkouts[4].status = "scheduled"
    /\ route = Some([path |-> "/start-workout", id |-> "s5"])

\* C27: in rearrange mode, with nothing selected a press on day i selects
\* i; a press on the selected day clears the selection; a press on a
\* different day while one is selected clears the selection; no press in
\* rearrange mode triggers navigation.
C27_SelectionStateMachine ==
    [][(pressed' # None /\ isRearrangeMode) =>
         /\ selectedItem = None => selectedItem' = pressed'
         /\ selectedItem = pressed' => selectedItem' = None
         /\ (selectedItem # None /\ selectedItem # pressed')
               => selectedItem' = None
         /\ route' = None
         /\ isRearrangeMode']_vars

\* in rearrange mode a press has cleared a selection
C27_Witness ==
    /\ isRearrangeMode
    /\ pressed # None
    /\ selectedItem = None
    /\ Len(weeklyWorkouts) = 7

\* C28: after any sequence of presses, rearrange toggles, week navigations
\* and reloads, a selection exists only in rearrange mode and is a valid
\* position of the current weeklyWorkouts; every toggle of rearrange mode,
\* in either direction, clears the selection.
C28_SelectionOnlyInRearrangeMode ==
    /\ [](selectedItem # None =>
            /\ isRearrangeMode
            /\ selectedItem[1] \in 1 .. Len(weeklyWorkouts))
    /\ [][isRearrangeMode' # isRearrangeMode => selectedItem' = None]_vars

\* a selection that has outlived a reload of the week
C28_Witness ==
    /\ isRearrangeMode
    /\ selectedItem # None
    /\ pressed = None
    /\ loadOutcome = "ok"
    /\ Settled

----------------------------------------------------------------------------
(* Week navigation (checked under SpecWeek) *)

\* C29: week navigation moves by exactly one week: after 'next' every day
\* of the displayed window, the Monday first, is the previous one plus 7
\* days (minus 7 after 'prev'), across month and year boundaries too, and
\* 'next' followed by 'prev' (or the reverse) returns to the same window.
C29_NavigationMovesOneWeek ==
    /\ [][(weekDates # <<>> /\ currentWeekStart' # currentWeekStart) =>
            LET shift == IF currentWeekStart' > currentWeekStart
                         THEN 7 ELSE -7
            IN  /\ Len(weekDates') = 7
                /\ \A i \in 1 .. 7 :
                      LocalDay(weekDates'[i]) = LocalDay(weekDates[i]) + shift
                /\ LocalDay(currentWeekStart')
                      = LocalDay(currentWeekStart) + shift]_vars
    /\ [](/\ getWeekDates(navigateWeek(navigateWeek(currentWeekStart,
                                                      "next"), "prev"))
                = getWeekDates(currentWeekStart)
           /\ getWeekDates(navigateWeek(navigateWeek(currentWeekStart,
                                                      "prev"), "next"))
                = getWeekDates(currentWeekStart))

\* the displayed window was moved from a week starting in 2024 to a week
\* starting in 2025
C29_Witness ==
    /\ weekDates # <<>>
    /\ currentWeekStart > clock
    /\ CivilFromDay(LocalDay(getWeekDates(clock)[1])).year = 2024
    /\ CivilFromDay(LocalDay(weekDates[1])).year = 2025

----------------------------------------------------------------------------
(* Pull to refresh (checked under SpecRefresh) *)

-----------------------------------------------------------------------------
(* The workout_plans accessors (checked under SpecPlans) *)

ListAccessors ==
    {"getWorkoutPlansForClient", "getWorkoutPlansForTrainer",
     "getActiveWorkoutPlans"}

RowAccessors == {"getWorkoutPlanById", "createWorkoutPlan", "updateWorkoutPlan"}

\* C30: every workout_plans accessor reports failure as a value: when the
\* backend call hands back an error or throws, the list queries return the
\* empty list, get/create/update return null and delete returns false; and
\* delete returns true only when the backend reported no error.
C30_FailureIsAValue ==
    planResult # None =>
        LET call == planResult[1]
            failed == call.outcome \in {"error", "throws"}
        IN  /\ call.accessor \in ListAccessors /\ failed
                => call.value = <<>>
            /\ call.accessor \in RowAccessors /\ failed
                => call.value = None
            /\ call.accessor = "deleteWorkoutPlan"
                => /\ call.value \in BOOLEAN
                   /\ failed => call.value = FALSE
                   /\ call.value = TRUE => call.outcome = "ok"

\* a delete whose backend call reported an error, on a table with rows
C30_Witness ==
    /\ planResult # None
    /\ planResult[1].accessor = "deleteWorkoutPlan"
    /\ planResult[1].outcome = "error"
    /\ planResult[1].value = FALSE
    /\ plans # <<>>

====
